---- MODULE Spec2Model ----
(***************************************************************************)
(* A model of torch_geometric/nn/conv/hgt_conv.py: the construction of an  *)
(* HGTConv layer and one call of forward.                                  *)
(*                                                                         *)
(* Tensors are modelled by their shape and by the provenance of their      *)
(* entries: a row is a sequence over heads of symbolic terms (which node    *)
(* of which type was projected, which relation matrix it was multiplied    *)
(* by), so that "row d aggregates exactly the sources of d's edges" and    *)
(* "head h is multiplied by a_rel[t][h]" are statements about terms.       *)
(* Row and head numbers inside terms are 0-based as in the Python code;    *)
(* TLA+ sequences are 1-based, so tensor row n is element n + 1.           *)
(***************************************************************************)
EXTENDS Integers, Sequences, FiniteSets, TLC

\* ------------------------------------------------------------- bounds ----
MaxNodes == 2       \* rows of a node type's feature tensor: 1..MaxNodes
MaxHeads == 2       \* heads: 1..MaxHeads
MaxEdges == 2       \* edges of one forward call, all edge types together

\* the inputs the model enumerates
NodeTypeLists == {<<"A">>, <<"A", "B">>}
Relations == {"r"}
OutChannelChoices == {2, 3}
InChannelChoices == {2, 3}
GroupChoices == {"sum", "max"}

\* ------------------------------------------------------------ helpers ----
Range(s) == {s[i] : i \in DOMAIN s}

RECURSIVE Cat(_)
\* torch.cat(xs) along dim 0
Cat(xs) == IF xs = <<>> THEN <<>> ELSE Head(xs) \o Cat(Tail(xs))

Min(a, b) == IF a <= b THEN a ELSE b

\* the number of rows of t[a:b] for a tensor of L rows and 0 <= a, 0 <= b
SliceLen(L, a, b) == IF Min(b, L) > Min(a, L) THEN Min(b, L) - Min(a, L) ELSE 0

\* t[a:b], rows a..b-1 (0-based), clipped to the tensor as Python slices are
Slice(t, a, b) == SubSeq(t, Min(a, Len(t)) + 1, Min(b, Len(t)))

\* '__'.join(edge_type)
Join(edge_type) ==
    <<edge_type[1], "__", edge_type[2], "__", edge_type[3]>>

\* the sequences without repetition of one or two elements of S
OneOrTwo(S) == {<<x>> : x \in S} \cup {p \in S \X S : p[1] # p[2]}

RECURSIVE SubsetsUpTo(_, _)
\* the subsets of S of at most k elements
SubsetsUpTo(S, k) ==
    IF k = 0 THEN {{}}
    ELSE LET smaller == SubsetsUpTo(S, k - 1)
         IN  smaller \cup {X \cup {x} : X \in smaller, x \in S}

LexLeq(a, b) == a[1] < b[1] \/ (a[1] = b[1] /\ a[2] <= b[2])

RECURSIVE SortPairs(_)
\* a sequence of pairs in lexicographic order (repetitions kept)
SortPairs(s) ==
    IF s = <<>> THEN <<>>
    ELSE LET m == CHOOSE i \in DOMAIN s : \A j \in DOMAIN s : LexLeq(s[i], s[j])
         IN  <<s[m]>> \o SortPairs(SubSeq(s, 1, m - 1) \o SubSeq(s, m + 1, Len(s)))

RECURSIVE SetToSeq(_)
SetToSeq(S) ==
    IF S = {} THEN <<>>
    ELSE LET x == CHOOSE y \in S : TRUE IN <<x>> \o SetToSeq(S \ {x})

\* ------------------------------------------------------------- state -----
VARIABLES
    pc,               \* "new", "ready", "ctor_raised", "batched", "returned", "raised"
    call,             \* the arguments of HGTConv(...)
    use_gmm, in_channels, out_channels, heads, self_group,
    node_types, edge_types, src_types,
    k_lin, q_lin, v_lin, a_lin, skip, a_rel, m_rel, p_rel,
    x_dict, edge_index_dict,          \* the arguments of forward
    k_dict, q_dict, v_dict,
    trans_ptr, k_out, v_out, node_slices,
    q, p, e_idx, out, out_dict,
    err               \* the exception forward ended with, "" when none

layer == <<use_gmm, in_channels, out_channels, heads, self_group,
           node_types, edge_types, src_types,
           k_lin, q_lin, v_lin, a_lin, skip, a_rel, m_rel, p_rel>>
batch == <<x_dict, k_dict, q_dict, v_dict, trans_ptr, k_out, v_out, node_slices>>
attend == <<edge_index_dict, q, p, e_idx, out, out_dict>>
vars == <<pc, call, layer, batch, attend, err>>

\* -------------------------------------------------------- construction ---
\* the edge types over the node types nts
EdgeTypesOver(nts) == {<<S, rel, T>> : S \in Range(nts), rel \in Relations, T \in Range(nts)}

\* metadata = (node types, edge types)
Metadatas ==
    UNION {{<<nts, ets>> : ets \in OneOrTwo(EdgeTypesOver(nts))} : nts \in NodeTypeLists}

Unset == [module |-> "unset"]

\* a test that only asks for at least one channel per head
NotDivisibleHeadsOnly(oc, H) == oc < H

\* out_channels % heads != 0, the test of line 87
NotDivisible(oc, H) == oc % H # 0

\* Linear / HeteroDictLinear wrapped per node type
ToHeteroLinear(name, ic, oc, types) ==
    [module |-> "ToHeteroLinear", name |-> name, in_channels |-> ic,
     out_channels |-> oc, types |-> types]
HeteroDictLinear(name, ic, oc, types) ==
    [module |-> "HeteroDictLinear", name |-> name, in_channels |-> ic,
     out_channels |-> oc, types |-> types]

MaxOf(S) == CHOOSE m \in S : \A x \in S : x <= m

\* Parameter(torch.Tensor(heads, dim, dim)) / Parameter(torch.Tensor(heads)):
\* one entry per head, named by its dictionary, key and head
RelParam(name, key, H) == [h \in 1..H |-> [param |-> name, key |-> key, head |-> h - 1]]

Init ==
    /\ pc = "new"
    /\ call = [in_channels |-> 0, out_channels |-> 0, metadata |-> <<>>,
               heads |-> 0, group |-> ""]
    /\ use_gmm = FALSE /\ in_channels = <<>> /\ out_channels = 0 /\ heads = 0
    /\ self_group = ""
    /\ node_types = <<>> /\ edge_types = <<>> /\ src_types = <<>>
    /\ k_lin = Unset /\ q_lin = Unset /\ v_lin = Unset /\ a_lin = Unset
    /\ skip = <<>> /\ a_rel = <<>> /\ m_rel = <<>> /\ p_rel = <<>>
    /\ x_dict = <<>> /\ edge_index_dict = <<>>
    /\ k_dict = <<>> /\ q_dict = <<>> /\ v_dict = <<>>
    /\ trans_ptr = <<>> /\ k_out = <<>> /\ v_out = <<>> /\ node_slices = <<>>
    /\ q = <<>> /\ p = <<>> /\ e_idx = <<>> /\ out = <<>> /\ out_dict = <<>>
    /\ err = ""

\* HGTConv.__init__
Construct(ic, oc, metadata, H, grp, gmm_avail) ==
    /\ pc = "new"
    /\ call' = [in_channels |-> ic, out_channels |-> oc, metadata |-> metadata,
                heads |-> H, group |-> grp]
    /\ IF NotDivisible(oc, H)
       THEN /\ pc' = "ctor_raised"
            /\ UNCHANGED layer
       ELSE LET ics == [t \in Range(metadata[1]) |-> ic]
                keys == {Join(et) : et \in Range(metadata[2])}
            IN  /\ pc' = "ready"
                /\ use_gmm' = gmm_avail
                /\ in_channels' = ics
                /\ out_channels' = oc
                /\ heads' = H
                /\ self_group' = grp
                /\ node_types' = metadata[1]
                /\ edge_types' = metadata[2]
                /\ src_types' = [i \in DOMAIN metadata[2] |-> metadata[2][i][1]]
                /\ IF gmm_avail
                   THEN /\ k_lin' = HeteroDictLinear("k_lin", ics, oc, metadata[1])
                        /\ q_lin' = HeteroDictLinear("q_lin", ics, oc, metadata[1])
                        /\ v_lin' = HeteroDictLinear("v_lin", ics, oc, metadata[1])
                        /\ a_lin' = HeteroDictLinear("a_lin", oc, oc, metadata[1])
                   ELSE LET max_channels == MaxOf(Range(ics))
                        IN  /\ k_lin' = ToHeteroLinear("k_lin", max_channels, oc, metadata[1])
                            /\ q_lin' = ToHeteroLinear("q_lin", max_channels, oc, metadata[1])
                            /\ v_lin' = ToHeteroLinear("v_lin", max_channels, oc, metadata[1])
                            /\ a_lin' = ToHeteroLinear("a_lin", oc, oc, metadata[1])
                /\ skip' = [t \in Range(metadata[1]) |-> [param |-> "skip", key |-> t]]
                /\ a_rel' = [k \in keys |-> RelParam("a_rel", k, H)]
                /\ m_rel' = [k \in keys |-> RelParam("m_rel", k, H)]
                /\ p_rel' = [k \in keys |-> RelParam("p_rel", k, H)]
    /\ UNCHANGED <<batch, attend, err>>

\* ------------------------------------------------- forward, lines 178-249 --
\* the feature tensors of one call: rows and channels of every node type
XDicts ==
    {[t \in Range(node_types) |-> [rows |-> n[t], channels |-> in_channels[t]]] :
        n \in [Range(node_types) -> 1..MaxNodes]}

\* lin(x_dict): one tensor [rows, out_channels] per node type of the module,
\* in the order of its types; row n is the projection of node n
Project(lin, xs) ==
    [t \in Range(lin.types) |->
        [n \in 1..xs[t].rows |-> [lin |-> lin.name, type |-> t, node |-> n - 1]]]

\* t.view(-1, H, D) of a tensor [N, H * D]: row n, head h is the h-th slice
ViewHD(t, H) ==
    [n \in DOMAIN t |->
        [h \in 1..H |-> [lin |-> t[n].lin, type |-> t[n].type,
                         node |-> t[n].node, head |-> h - 1]]]

\* t.view(-1, D) of a tensor [N, H, D]: flat row n * H + h is (node n, head h)
ViewFlat(t, H) ==
    [r \in 1..(Len(t) * H) |-> t[((r - 1) \div H) + 1][((r - 1) % H) + 1]]

\* t.view(-1, H, D) of a tensor [R, D]: row g, head h is flat row g * H + h
View3(flat, H) ==
    [g \in 1..(Len(flat) \div H) |-> [h \in 1..H |-> flat[(g - 1) * H + h]]]

\* t.transpose(0, 1) of a tensor [R, C, D]
Transpose(t, C) == [c \in 1..C |-> [r \in DOMAIN t |-> t[r][c]]]

\* the product of an input row by a relation matrix
MatMul(x, w) == [x |-> x, w |-> w]
NoWeight == [param |-> "none", key |-> <<>>, head |-> 0]

RECURSIVE TransPtrLoop(_, _, _, _, _)
\* the loop of lines 231-238: per source type, H times count += k_src.size(0)
TransPtrLoop(srcs, kd, H, count, ptr) ==
    IF srcs = <<>> THEN ptr
    ELSE LET N == Len(kd[Head(srcs)])
         IN  TransPtrLoop(Tail(srcs), kd, H, count + H * N,
                          ptr \o [i \in 1..H |-> count + i * N])

\* the table with the loop over the heads forgotten: one boundary per source type
TransPtrPerType(srcs, kd, H) == TransPtrLoop(srcs, kd, 1, 0, <<0>>)

\* trans_ptr of lines 229-239
TransPtr(srcs, kd, H) == TransPtrLoop(srcs, kd, H, 0, <<0>>)

\* pyg_lib.ops.segment_matmul(inputs, ptr, other): the rows ptr[s]..ptr[s+1]-1
\* of inputs times other[s]
segment_matmul(inputs, ptr, other) ==
    [r \in DOMAIN inputs |->
        LET S == {s \in 1..(Len(ptr) - 1) : ptr[s] <= r - 1 /\ r - 1 < ptr[s + 1]}
            s == CHOOSE x \in S : TRUE
        IN  IF S = {} \/ s > Len(other) THEN MatMul(inputs[r], NoWeight)
            ELSE MatMul(inputs[r], other[s])]

\* pyg_lib.ops.grouped_matmul(inputs, others): inputs[i] @ others[i], each a
\* batched product of [H, N, D] by [H, D, D]
grouped_matmul(inputs, others) ==
    [i \in DOMAIN inputs |->
        [h \in DOMAIN inputs[i] |->
            [n \in DOMAIN inputs[i][h] |-> MatMul(inputs[i][h][n], others[i][h])]]]

RECURSIVE SumSeq(_)
SumSeq(s) == IF s = <<>> THEN 0 ELSE Head(s) + SumSeq(Tail(s))

\* make_node_slices(num_nodes): the boundaries (start, end) of each node type,
\* cumulated in the order of the dictionary
make_node_slices(types, sizes) ==
    [t \in Range(types) |->
        LET i == CHOOSE j \in DOMAIN types : types[j] = t
        IN  <<SumSeq(SubSeq(sizes, 1, i - 1)), SumSeq(SubSeq(sizes, 1, i))>>]

\* lines 246-249: the size of node type i is the number of rows of
\* k_out[trans_ptr[i]:trans_ptr[i + 1]]; trans_ptr[i + 1] must exist
SegmentSlicesRaise(types, ptr) == Len(types) + 1 > Len(ptr)
SegmentSliceSizes(types, ptr, ko) ==
    [i \in DOMAIN types |-> SliceLen(Len(ko), ptr[i], ptr[i + 1])]

\* lines 220-223: the size of node type i is k_outs[i].shape[0]
GroupedSlicesRaise(types, kos) == Len(types) > Len(kos)
GroupedSliceSizes(types, kos) == [i \in DOMAIN types |-> Len(kos[i])]

\* lines 178-249 of forward, as a function of the layer and x_dict
Batch(gmm, H, types, etypes, srcs, klin, qlin, vlin, arel, mrel, xs) ==
    LET kd == [t \in Range(types) |-> ViewHD(Project(klin, xs)[t], H)]
        qd == [t \in Range(types) |-> ViewHD(Project(qlin, xs)[t], H)]
        vd == [t \in Range(types) |-> ViewHD(Project(vlin, xs)[t], H)]
        a_rels == [i \in DOMAIN etypes |-> arel[Join(etypes[i])]]
        m_rels == [i \in DOMAIN etypes |-> mrel[Join(etypes[i])]]
    IN  IF gmm
        THEN LET k_ins == [i \in DOMAIN srcs |-> Transpose(kd[srcs[i]], H)]
                 v_ins == [i \in DOMAIN srcs |-> Transpose(vd[srcs[i]], H)]
                 gk == grouped_matmul(k_ins, a_rels)
                 gv == grouped_matmul(v_ins, m_rels)
                 k_outs == [i \in DOMAIN gk |-> Transpose(gk[i], Len(gk[i][1]))]
                 v_outs == [i \in DOMAIN gv |-> Transpose(gv[i], Len(gv[i][1]))]
                 raise == GroupedSlicesRaise(types, k_outs)
             IN  [err |-> IF raise THEN "IndexError" ELSE "",
                  k_dict |-> kd, q_dict |-> qd, v_dict |-> vd,
                  trans_ptr |-> <<>>,
                  k_out |-> IF raise THEN <<>> ELSE Cat(k_outs),
                  v_out |-> IF raise THEN <<>> ELSE Cat(v_outs),
                  node_slices |-> IF raise THEN <<>>
                                  ELSE make_node_slices(types, GroupedSliceSizes(types, k_outs))]
        ELSE LET k_ins == [i \in DOMAIN srcs |-> ViewFlat(kd[srcs[i]], H)]
                 v_ins == [i \in DOMAIN srcs |-> ViewFlat(vd[srcs[i]], H)]
                 ptr == TransPtr(srcs, kd, H)
                 ko == View3(segment_matmul(Cat(k_ins), ptr, Cat(a_rels)), H)
                 vo == View3(segment_matmul(Cat(v_ins), ptr, Cat(m_rels)), H)
                 raise == SegmentSlicesRaise(types, ptr)
             IN  [err |-> IF raise THEN "IndexError" ELSE "",
                  k_dict |-> kd, q_dict |-> qd, v_dict |-> vd,
                  trans_ptr |-> ptr, k_out |-> ko, v_out |-> vo,
                  node_slices |-> IF raise THEN <<>>
                                  ELSE make_node_slices(types, SegmentSliceSizes(types, ptr, ko))]

\* forward, from its call to the node slices (lines 178-249); an IndexError of
\* lines 220-223 / 246-249 ends the call
ForwardBatch(xs) ==
    /\ pc = "ready"
    /\ LET b == Batch(use_gmm, heads, node_types, edge_types, src_types,
                      k_lin, q_lin, v_lin, a_rel, m_rel, xs)
       IN  /\ x_dict' = xs
           /\ k_dict' = b.k_dict /\ q_dict' = b.q_dict /\ v_dict' = b.v_dict
           /\ trans_ptr' = b.trans_ptr /\ k_out' = b.k_out /\ v_out' = b.v_out
           /\ node_slices' = b.node_slices
           /\ err' = b.err
           /\ pc' = IF b.err = "" THEN "batched" ELSE "raised"
    /\ UNCHANGED <<call, layer, attend>>

\* ------------------------------------------------- forward, lines 251-302 --
IndexOf(seq, x) == CHOOSE i \in DOMAIN seq : seq[i] = x

\* a torch.LongTensor [2, num_edges] holding the edges E = {(source, destination)}
DenseEdges(E) ==
    LET e == SortPairs(SetToSeq(E))
    IN  [layout |-> "coo",
         rows |-> <<[i \in DOMAIN e |-> e[i][1]], [i \in DOMAIN e |-> e[i][2]]>>]

\* SparseTensor(row, col, sparse_sizes): entries stored in (row, col) order
SparseTensor(row, col, sizes) ==
    LET e == SortPairs([i \in DOMAIN row |-> <<row[i], col[i]>>])
    IN  [layout |-> "csr", row |-> [i \in DOMAIN e |-> e[i][1]],
         col |-> [i \in DOMAIN e |-> e[i][2]], sparse_sizes |-> sizes]

\* its constructor asserts that every row and column lies inside sparse_sizes
SparseTensorRaises(row, col, sizes) ==
    \/ \E i \in DOMAIN row : row[i] >= sizes[1]
    \/ \E i \in DOMAIN col : col[i] >= sizes[2]

\* the transposed adjacency of the edges E: row = destination, col = source
SparseEdges(E, n_dst, n_src) ==
    LET e == SetToSeq(E)
    IN  SparseTensor([i \in DOMAIN e |-> e[i][2]], [i \in DOMAIN e |-> e[i][1]],
                     <<n_dst, n_src>>)

\* SparseTensor.coo(): (row, col)
coo(adj) == <<adj.row, adj.col>>

\* lines 258-262: the [2, num_edges] index tensor of one edge type
Indices(indices) ==
    IF indices.layout = "csr"
    THEN LET dst == coo(indices)[1]
             src == coo(indices)[2]
         IN  <<src, dst>>
    ELSE indices.rows

\* offset_edge_idx(node_slices, edge_type, edge_index): row 0 shifted by the
\* start of the source type's slice, row 1 by the destination type's
offset_edge_idx(slices, e_type, indices) ==
    <<[i \in DOMAIN indices[1] |-> indices[1][i] + slices[e_type[1]][1]],
      [i \in DOMAIN indices[2] |-> indices[2][i] + slices[e_type[3]][1]]>>

\* combine_edge_slices(edge_index_list): concatenation along the edges
combine_edge_slices(list) ==
    <<Cat([i \in DOMAIN list |-> list[i][1]]), Cat([i \in DOMAIN list |-> list[i][2]])>>

\* group(xs, aggr), lines 30-43, for the reductions sum / mean / min / max over
\* tensors [H, 1]; .view(-1) of the result is one term per head
group(xs, aggr) ==
    IF Len(xs) = 0 THEN <<>>
    ELSE IF Len(xs) = 1 THEN xs[1]
    ELSE [h \in DOMAIN xs[1] |-> [op |-> aggr, args |-> {xs[i][h] : i \in DOMAIN xs}]]

\* HGTConv.message for one edge and one head: the value row of the source,
\* weighted by the softmax (over the edges of the same target) of
\* (q_i . k_j) * rel / sqrt(D)
message(k_j, q_i, v_j, rel) == [v |-> v_j, q |-> q_i, k |-> k_j, rel |-> rel]

\* the bag of the values f(m) for m in S
BagOf(S, f(_)) ==
    [c \in {f(m) : m \in S} |-> Cardinality({m \in S : f(m) = c})]

\* MessagePassing.propagate(edge_index, k, q, v, rel) with aggr = 'add',
\* node_dim = 0, flow = source_to_target.  A [2, E] tensor holds the message
\* sources j in row 0 and the targets i in row 1; a SparseTensor is read as
\* the transposed adjacency: its rows are the targets i, its columns the
\* sources j, and its sparse sizes fix the sizes of both sides.
PropagateSources(ei) == IF ei.layout = "csr" THEN ei.col ELSE ei.rows[1]
PropagateTargets(ei) == IF ei.layout = "csr" THEN ei.row ELSE ei.rows[2]
PropagateSize(ei, k, qq) ==
    IF ei.layout = "csr" THEN <<ei.sparse_sizes[2], ei.sparse_sizes[1]>>
    ELSE <<Len(k), Len(qq)>>
PropagateError(ei, k, qq) ==
    LET size == PropagateSize(ei, k, qq)
        j == PropagateSources(ei)
        i == PropagateTargets(ei)
    IN  IF size[1] # Len(k) \/ size[2] # Len(qq) THEN "ValueError"
        ELSE IF \/ \E m \in DOMAIN j : j[m] >= Len(k)
                \/ \E m \in DOMAIN i : i[m] >= Len(qq) THEN "IndexError"
        ELSE ""
propagate(ei, k, qq, v, rel) ==
    LET size == PropagateSize(ei, k, qq)
        j == PropagateSources(ei)
        i == PropagateTargets(ei)
    IN  [g \in 1..size[2] |->
            [h \in DOMAIN rel |->
                LET msg(m) == message(k[j[m] + 1][h], qq[i[m] + 1][h],
                                      v[j[m] + 1][h], rel[h])
                IN  BagOf({m \in DOMAIN i : i[m] = g - 1}, msg)]]

NoneValue == [op |-> "None"]
IsNone(v) == v.op = "None"
Tensor(rows) == [op |-> "tensor", rows |-> rows]

\* lines 278-281: out_dict[node_type] = out[k_ptr:k_ptr + k.size(0)], over
\* k_dict in the order of the node types
SplitOut(types, kd, o) ==
    [t \in Range(types) |->
        LET i == IndexOf(types, t)
            k_ptr == SumSeq([n \in 1..(i - 1) |-> Len(kd[types[n]])])
        IN  Tensor(Slice(o, k_ptr, k_ptr + Len(kd[t])))]

\* the skip connection taken whatever the channel counts
BlendAlways(a, t, xs, skp) ==
    [op |-> "blend", alpha |-> [op |-> "sigmoid", arg |-> skp[t]],
     out |-> a, x |-> [op |-> "x", type |-> t], channels |-> a.channels]

\* lines 297-299: the skip connection, taken when the channels agree
Blend(a, t, xs, skp) ==
    IF a.channels = xs[t].channels
    THEN [op |-> "blend", alpha |-> [op |-> "sigmoid", arg |-> skp[t]],
          out |-> a, x |-> [op |-> "x", type |-> t], channels |-> a.channels]
    ELSE a

\* lines 283-302
Compose(od, alin, xs, skp) ==
    LET a_dict == [t \in {u \in DOMAIN od : ~IsNone(od[u])} |->
                      [op |-> alin.name, type |-> t,
                       arg |-> [op |-> "gelu", arg |-> od[t].rows],
                       channels |-> alin.out_channels]]
    IN  [t \in DOMAIN od |->
            IF IsNone(od[t]) THEN NoneValue ELSE Blend(a_dict[t], t, xs, skp)]

\* lines 251-302 of forward, as a function of the layer, of the results of
\* lines 178-249 and of edge_index_dict
Attend(grp, types, etypes, alin, skp, prel, xs, kd, qd, ko, vo, slices, eid) ==
    LET convert == eid[etypes[Len(etypes)]].layout = "csr"
        edge_index_list ==
            [i \in DOMAIN etypes |->
                offset_edge_idx(slices, etypes[i], Indices(eid[etypes[i]]))]
        q_list == [i \in DOMAIN etypes |-> qd[etypes[i][3]]]
        p_rels == [i \in DOMAIN etypes |-> prel[Join(etypes[i])]]
        qq == Cat(q_list)
        pp == group(p_rels, grp)
        combined == combine_edge_slices(edge_index_list)
        sizes == <<Len(ko), Len(ko)>>
        raise == convert /\ SparseTensorRaises(combined[1], combined[2], sizes)
        ei == IF convert THEN SparseTensor(combined[1], combined[2], sizes)
              ELSE [layout |-> "coo", rows |-> combined]
        perr == IF raise THEN "AssertionError" ELSE PropagateError(ei, ko, qq)
        o == propagate(ei, ko, qq, vo, pp)
    IN  [err |-> perr, q |-> qq, p |-> pp,
         e_idx |-> IF raise THEN <<>> ELSE ei,
         out |-> IF perr = "" THEN o ELSE <<>>,
         out_dict |-> IF perr = "" THEN Compose(SplitOut(types, kd, o), alin, xs, skp)
                      ELSE <<>>]

\* the edges a call may hold: (edge type number, local source, local destination)
EdgeSlots(etypes, xs) ==
    {<<i, s, d>> : i \in DOMAIN etypes, s \in 0..(MaxNodes - 1), d \in 0..(MaxNodes - 1)}
    \cap {c \in (DOMAIN etypes) \X (0..(MaxNodes - 1)) \X (0..(MaxNodes - 1)) :
             c[2] < xs[etypes[c[1]][1]].rows /\ c[3] < xs[etypes[c[1]][3]].rows}

\* edge_index_dict holding the chosen edges, every edge type in one layout
EdgeIndexDict(etypes, xs, chosen, sparse) ==
    [et \in Range(etypes) |->
        LET E == {<<c[2], c[3]>> : c \in {c \in chosen : etypes[c[1]] = et}}
        IN  IF sparse THEN SparseEdges(E, xs[et[3]].rows, xs[et[1]].rows)
            ELSE DenseEdges(E)]

\* forward, from the edge loop to its return (lines 251-302).  edge_index_dict
\* is an argument of the call that lines 178-249 never read; it is first read
\* at line 256, and the model draws it here.
ForwardAttend(eid) ==
    /\ pc = "batched"
    /\ LET r == Attend(self_group, node_types, edge_types, a_lin, skip, p_rel,
                       x_dict, k_dict, q_dict, k_out, v_out, node_slices, eid)
       IN  /\ edge_index_dict' = eid
           /\ q' = r.q /\ p' = r.p /\ e_idx' = r.e_idx
           /\ out' = r.out /\ out_dict' = r.out_dict
           /\ err' = r.err
           /\ pc' = IF r.err = "" THEN "returned" ELSE "raised"
    /\ UNCHANGED <<call, layer, batch>>

ConstructAny ==
    \E ic \in InChannelChoices, oc \in OutChannelChoices, m \in Metadatas,
       H \in 1..MaxHeads, grp \in GroupChoices, gmm_avail \in BOOLEAN :
       Construct(ic, oc, m, H, grp, gmm_avail)

ForwardBatchAny == \E xs \in XDicts : ForwardBatch(xs)

\* forward over a graph of at most n edges
ForwardAttendUpTo(n) ==
    /\ pc = "batched"
    /\ \E chosen \in SubsetsUpTo(EdgeSlots(edge_types, x_dict), n), sparse \in BOOLEAN :
          ForwardAttend(EdgeIndexDict(edge_types, x_dict, chosen, sparse))

Next ==
    \/ ConstructAny
    \/ ForwardBatchAny
    \/ ForwardAttendUpTo(MaxEdges)

Spec == Init /\ [][Next]_vars

\* construction and forward up to the node slices
NextBatch ==
    \/ ConstructAny
    \/ ForwardBatchAny

SpecBatch == Init /\ [][NextBatch]_vars

\* construction and forward over graphs of at most one edge
NextSingleEdge ==
    \/ ConstructAny
    \/ ForwardBatchAny
    \/ ForwardAttendUpTo(1)

SpecSingleEdge == Init /\ [][NextSingleEdge]_vars

\* ------------------------------------------------------------- claims ----
\* forward has run lines 178-249 (it may have raised there)
Batched == pc \in {"batched", "returned", "raised"}
\* forward has run lines 251-302 (it may have raised there)
Attended == pc \in {"returned", "raised"} /\ DOMAIN edge_index_dict # {}

NoParameters ==
    /\ k_lin = Unset /\ q_lin = Unset /\ v_lin = Unset /\ a_lin = Unset
    /\ DOMAIN skip = {} /\ DOMAIN a_rel = {} /\ DOMAIN m_rel = {} /\ DOMAIN p_rel = {}

\* C1: a construction with out_channels % heads # 0 ends in the ValueError with
\* none of k_lin, q_lin, v_lin, a_lin, skip, a_rel, m_rel, p_rel created, and a
\* construction with out_channels % heads = 0 does not end in that error.
C1_Theorem ==
    pc # "new" =>
        /\ call.out_channels % call.heads # 0 => (pc = "ctor_raised" /\ NoParameters)
        /\ call.out_channels % call.heads = 0 => pc # "ctor_raised"

C1_Witness == pc = "ctor_raised" /\ call.out_channels % call.heads # 0

\* the local edges (source, destination) an entry of edge_index_dict holds
LocalEdges(ei) ==
    IF ei.layout = "csr" THEN {<<ei.col[i], ei.row[i]>> : i \in DOMAIN ei.row}
    ELSE {<<ei.rows[1][i], ei.rows[2][i]>> : i \in DOMAIN ei.rows[1]}

\* C2: in the dictionary forward returns, a node type that is the destination
\* of no edge of edge_index_dict is mapped to None.
C2_Claim ==
    pc = "returned" =>
        \A t \in Range(node_types) :
            (\A et \in Range(edge_types) : et[3] = t => LocalEdges(edge_index_dict[et]) = {})
                => IsNone(out_dict[t])

\* the message the claim expects of the edge (s, d) of edge type et, head h
ExpectedMessage(et, s, d, h) ==
    message(MatMul(k_dict[et[1]][s + 1][h], a_rel[Join(et)][h]),
            q_dict[et[3]][d + 1][h],
            MatMul(v_dict[et[1]][s + 1][h], m_rel[Join(et)][h]),
            p[h])

\* the aggregated row returned for node d of type t (under a_lin / the skip)
ReturnedRows(o) == IF o.op = "blend" THEN o.out.arg.arg ELSE o.arg.arg

\* C3: a forward call with in-range edges completes, and row d of out_dict[T]
\* aggregates, per head, exactly one message per incoming edge (s, d) of every
\* edge type (S, rel, T): node s of S's K and V under a_rel / m_rel of that
\* edge type, against node d of T's Q.
C3_Claim ==
    pc \in {"returned", "raised"} =>
        /\ pc = "returned"
        /\ \A t \in Range(node_types) :
              (\E et \in Range(edge_types) : et[3] = t) =>
                  /\ ~IsNone(out_dict[t])
                  /\ Len(ReturnedRows(out_dict[t])) = x_dict[t].rows
                  /\ \A d \in 0..(x_dict[t].rows - 1), h \in 1..heads :
                        LET incoming ==
                                {c \in {u \in Range(edge_types) : u[3] = t} \X (0..(MaxNodes - 1)) :
                                    <<c[2], d>> \in LocalEdges(edge_index_dict[c[1]])}
                            expect(c) == ExpectedMessage(c[1], c[2], d, h)
                        IN  ReturnedRows(out_dict[t])[d + 1][h] = BagOf(incoming, expect)

\* what a forward call hands back: its dictionary, or that it raised
Outcome(e, od) == IF e = "" THEN [raised |-> FALSE, out_dict |-> od]
                  ELSE [raised |-> TRUE, out_dict |-> <<>>]

\* edge_index_dict with the same edges in the other layout
OtherLayout(eid) ==
    [et \in DOMAIN eid |->
        IF eid[et].layout = "csr" THEN DenseEdges(LocalEdges(eid[et]))
        ELSE SparseEdges(LocalEdges(eid[et]), x_dict[et[3]].rows, x_dict[et[1]].rows)]

\* C4: forward over the dense [2, num_edges] tensors and forward over the
\* sparse adjacencies of the same edges yield the same output.
C4_Claim ==
    Attended =>
        LET other == Attend(self_group, node_types, edge_types, a_lin, skip, p_rel,
                            x_dict, k_dict, q_dict, k_out, v_out, node_slices,
                            OtherLayout(edge_index_dict))
        IN  Outcome(other.err, other.out_dict) = Outcome(err, out_dict)

\* forward of the layer with metadata[1] = etypes, on x_dict and edge_index_dict
ForwardWith(etypes) ==
    LET srcs == [i \in DOMAIN etypes |-> etypes[i][1]]
        b == Batch(use_gmm, heads, node_types, etypes, srcs,
                   k_lin, q_lin, v_lin, a_rel, m_rel, x_dict)
        r == Attend(self_group, node_types, etypes, a_lin, skip, p_rel, x_dict,
                    b.k_dict, b.q_dict, b.k_out, b.v_out, b.node_slices,
                    edge_index_dict)
    IN  IF b.err # "" THEN Outcome(b.err, <<>>) ELSE Outcome(r.err, r.out_dict)

\* the orders of the edge types
Orders(etypes) ==
    {s \in OneOrTwo(Range(etypes)) : Len(s) = Len(etypes)}

\* C5: with the parameters keyed by edge type name, every order of the edge
\* types in metadata[1] gives the same output of forward.
C5_Claim ==
    Attended =>
        \A etypes \in Orders(edge_types) :
            ForwardWith(etypes) = Outcome(err, out_dict)

\* the prior the claim expects on the edges of edge type et, head h: the group
\* reduction of p_rel over the edge types with et's destination
ExpectedPrior(et, h) ==
    LET shared == {u \in Range(edge_types) : u[3] = et[3]}
    IN  IF Cardinality(shared) = 1 THEN p_rel[Join(et)][h]
        ELSE [op |-> self_group, args |-> {p_rel[Join(u)][h] : u \in shared}]

\* C6: the score of every edge of edge type t, head h, is multiplied by the
\* group reduction of p_rel[.][h] over the edge types sharing t's destination
\* type only (p_rel[t][h] itself when t is the only one).
C6_Claim ==
    Attended =>
        \A et \in Range(edge_types), h \in 1..heads : p[h] = ExpectedPrior(et, h)

\* a_lin(gelu(out[k_ptr:k_ptr + k.size(0)])) for node type t
Transformed(t) ==
    [op |-> "a_lin", type |-> t,
     arg |-> [op |-> "gelu", arg |-> SplitOut(node_types, k_dict, out)[t].rows],
     channels |-> out_channels]

\* C7: a defined output is the a_lin transform alone when its channel count
\* differs from that of the type's input features, and otherwise
\* sigmoid(skip[type]) * transform + (1 - sigmoid(skip[type])) * input.
C7_Theorem ==
    pc = "returned" =>
        \A t \in Range(node_types) :
            ~IsNone(out_dict[t]) =>
                IF Transformed(t).channels # x_dict[t].channels
                THEN out_dict[t] = Transformed(t)
                ELSE /\ out_dict[t].op = "blend"
                     /\ out_dict[t].alpha = [op |-> "sigmoid", arg |-> skip[t]]
                     /\ out_dict[t].out = Transformed(t)
                     /\ out_dict[t].x = [op |-> "x", type |-> t]

C7_Witness ==
    /\ pc = "returned"
    /\ \E t \in Range(node_types) :
          /\ out_channels # x_dict[t].channels
          /\ out_dict[t].op = "a_lin"
          /\ \E d \in DOMAIN out_dict[t].arg.arg, h \in 1..heads :
                DOMAIN out_dict[t].arg.arg[d][h] # {}

\* cat(k_ins) and cat(a_rels) of the segment-matmul path
CatKIns == Cat([i \in DOMAIN src_types |-> ViewFlat(k_dict[src_types[i]], heads)])
CatARels == Cat([i \in DOMAIN edge_types |-> a_rel[Join(edge_types[i])]])

\* C8: in the segment-matmul path trans_ptr starts at 0, is non-decreasing,
\* ends at the number of rows of cat(k_ins), which is the sum over the edge
\* types of heads * rows of the source type, and has one segment per matrix
\* of cat(a_rels), len(edge_types) * heads of them.
C8_Theorem ==
    (Batched /\ ~use_gmm) =>
        /\ trans_ptr[1] = 0
        /\ \A i \in 1..(Len(trans_ptr) - 1) : trans_ptr[i] <= trans_ptr[i + 1]
        /\ trans_ptr[Len(trans_ptr)] = Len(CatKIns)
        /\ Len(CatKIns) = SumSeq([i \in DOMAIN src_types |-> heads * x_dict[src_types[i]].rows])
        /\ Len(trans_ptr) - 1 = Len(edge_types) * heads
        /\ Len(trans_ptr) - 1 = Len(CatARels)

C8_Witness ==
    /\ Batched /\ ~use_gmm
    /\ heads = 2 /\ Len(edge_types) = 2
    /\ x_dict[src_types[1]].rows # x_dict[src_types[2]].rows

\* C9: in the segment-matmul path, head h of node n of the source type of
\* every edge type t is multiplied by a_rel[t][h] (m_rel[t][h]) and stored as
\* head h of node n's row of t's block of k_out (v_out).
C9_Claim ==
    (Batched /\ ~use_gmm) =>
        \A i \in DOMAIN edge_types :
            LET et == edge_types[i]
                base == SumSeq([j \in 1..(i - 1) |-> x_dict[src_types[j]].rows])
            IN  \A n \in 1..x_dict[et[1]].rows, h \in 1..heads :
                    /\ k_out[base + n][h] = MatMul(k_dict[et[1]][n][h], a_rel[Join(et)][h])
                    /\ v_out[base + n][h] = MatMul(v_dict[et[1]][n][h], m_rel[Join(et)][h])

\* C10: node_slices gives every node type of metadata[0] the number of rows
\* of its feature tensor, whatever the numbers of node types, edge types and
\* heads, so that the offsets increase along metadata[0] and every offset
\* edge index lies in the slice of its own node type.
C10_Claim ==
    Batched =>
        /\ DOMAIN node_slices = Range(node_types)
        /\ \A t \in Range(node_types) :
              node_slices[t][2] - node_slices[t][1] = x_dict[t].rows
        /\ \A i \in 1..(Len(node_types) - 1) :
              node_slices[node_types[i]][2] = node_slices[node_types[i + 1]][1]
        /\ Attended =>
              \A et \in Range(edge_types) : \A e \in LocalEdges(edge_index_dict[et]) :
                  /\ e[1] + node_slices[et[1]][1] < node_slices[et[1]][2]
                  /\ e[2] + node_slices[et[3]][1] < node_slices[et[3]][2]
====
